---- MODULE Spec2Model ----
(***************************************************************************)
(* CalmPulse: the audio-to-emotion pipeline of backend/app/main.py.        *)
(*                                                                         *)
(* Two parts share this module.                                            *)
(*   - The Emotion Fusion Engine, analyze_emotion (main.py 143-197), a     *)
(*     function of a transcript, a heart-rate series and a volume series.  *)
(*     Specification SpecEmotion draws its inputs in Init and applies it.  *)
(*   - The two upload handlers, analyze_audio_simple (main.py 417-660) and *)
(*     analyze_audio (main.py 664-776), as one invocation at a time that   *)
(*     walks through the handler step by step.  Specification Spec.        *)
(*                                                                         *)
(* Units.  Numbers the code holds as floats are kept as exact integers:    *)
(*   - the VADER compound score, which VADER rounds to 4 decimals, in      *)
(*     units of 1/10000 (so -0.3 is -3000 and 0.3 is 3000);                *)
(*   - a volume sample in units of 1/8 (so 0.5 is 4); the mean of a series *)
(*     is kept as the pair <<sum, count>> and compared by cross            *)
(*     multiplication, which is exact for these dyadic values;             *)
(*   - a confidence in units of 1/10 (0.9 is 9).                           *)
(***************************************************************************)
EXTENDS Integers, Sequences, FiniteSets, TLC

VARIABLES
    \* ---- analyze_emotion: the call under observation
    heart_rate_df,      \* the 'bpm' column of heart_rate_df, a sequence
    volume_df,          \* the 'volume' column of volume_df, a sequence
    em_transcript,      \* the transcript argument, a sequence of characters
    em_compound,        \* analyzer.polarity_scores(transcript)['compound']
    analysis,           \* what the call returned (or that it raised)
    again,              \* what a second call with the same arguments returned
    emotion_data,       \* the module-level emotion_data dict (main.py 38-43)
    \* ---- one invocation of an upload handler
    endpoint,           \* "none", "simple" (analyze_audio_simple), "audio" (analyze_audio)
    pc,                 \* the handler's position
    upload,             \* the UploadFile: declared type accepted or not, and its size
    temp_path,          \* TRUE once the local temp_path is assigned
    converted_path,     \* TRUE once the local converted_path is assigned
    fs,                 \* the temporary files of this invocation that exist on disk
    unlink_failed,      \* the files whose os.unlink raised in the cleanup
    buffer,             \* the audio handed to the later stages (the converted WAV, or y)
    strategies,         \* the conversion methods tried so far, with their outcome
    attempts,           \* the recognizer attempts invoked so far, with their outcome
    transcript,         \* the local transcript
    features,           \* average_pitch and average_volume, and how they were obtained
    stages,             \* the pipeline stages this invocation has entered
    exc,                \* the exception in flight, "none" if there is none
    response,           \* what the caller receives
    \* ---- the lexical analysis of a handler (main.py 613-616)
    lexical,            \* what it computed from the transcript
    \* ---- the ConnectionManager (main.py 46-62) and the coroutines that use it
    active_connections, \* manager.active_connections, a list of sockets
    ws,                 \* where the endpoint coroutine of each socket stands
    bc,                 \* the broadcast call of each caller
    \* ---- save_to_json (transcript.py 81-105)
    log_file,           \* audio_log.json: whether it exists, and its text
    utc_now,            \* the UTC clock
    saved,              \* the entries of the completed calls, in call order
    last_call,          \* how the latest call ended
    \* ---- the recording loop (transcript.py 30-34 and 108-140)
    captured,           \* the sizes of the blocks delivered so far, in capture order
    audio_queue,        \* audio_queue: the blocks put and not yet taken
    audio_buffer,       \* main_loop's local audio_buffer, a list of arrays
    combined,           \* main_loop's local combined: the chunk being processed
    processed,          \* the chunks handed to the processing, in order
    loop_pc,            \* where main_loop stands
    \* ---- the clients of /ws/realtime (main.py 1002-1025)
    dropped,            \* the sockets whose connection has closed
    site                \* the call site of each caller's broadcast: 265 or 1017

em_vars == <<heart_rate_df, volume_df, em_transcript, em_compound, analysis,
             again, emotion_data>>

up_vars == <<endpoint, pc, upload, temp_path, converted_path, fs, unlink_failed,
             buffer, strategies, attempts, transcript, features, stages, exc,
             response>>

lx_vars == <<lexical>>

cm_vars == <<active_connections, ws, bc>>

log_vars == <<log_file, utc_now, saved, last_call>>

ml_vars == <<captured, audio_queue, audio_buffer, combined, processed, loop_pc>>

ep_vars == <<dropped, site>>

\* the variables that neither analyze_emotion nor the upload handlers touch
other_vars == <<lx_vars, cm_vars, log_vars, ml_vars, ep_vars>>

vars == <<heart_rate_df, volume_df, em_transcript, em_compound, analysis,
          again, emotion_data, endpoint, pc, upload, temp_path, converted_path,
          fs, unlink_failed, buffer, strategies, attempts, transcript, features,
          stages, exc, response, lexical, active_connections, ws, bc,
          log_file, utc_now, saved, last_call, captured, audio_queue,
          audio_buffer, combined, processed, loop_pc, dropped, site>>

(***************************************************************************)
(* Bounds of the model.                                                    *)
(***************************************************************************)
MaxSeriesLen == 2
MaxTranscriptLen == 5

(***************************************************************************)
(* Program constants.                                                      *)
(***************************************************************************)
HighBpmThreshold == 100
HighVolumeThreshold == 4
RepetitionAlertThreshold == 2
NegativeSentimentThreshold == -3000
HappySentimentThreshold == 3000
ConfidenceAnxious == 9
ConfidenceSad == 7
ConfidenceHappy == 8
ConfidenceNeutral == 6
InitialConfidence == 5

(***************************************************************************)
(* Input domains.                                                          *)
(***************************************************************************)
BoundedSeq(S, n) == UNION {[1..k -> S] : k \in 0..n}

BpmValues == {HighBpmThreshold, HighBpmThreshold + 1}
\* 3/8 and 5/8: below and above 0.5, and <<3, 5>> has mean exactly 0.5
VolumeValues == {3, 5}
CompoundValues == {NegativeSentimentThreshold - 1, NegativeSentimentThreshold,
                   HappySentimentThreshold, HappySentimentThreshold + 1}
Alphabet == {"a", " ", "."}

(***************************************************************************)
(* str.lower(), str.replace(ch, ''), str.split() on character sequences.   *)
(***************************************************************************)
UpperCase ==
    <<"A", "B", "C", "D", "E", "F", "G", "H", "I", "J", "K", "L", "M", "N",
      "O", "P", "Q", "R", "S", "T", "U", "V", "W", "X", "Y", "Z">>

LowerCase ==
    <<"a", "b", "c", "d", "e", "f", "g", "h", "i", "j", "k", "l", "m", "n",
      "o", "p", "q", "r", "s", "t", "u", "v", "w", "x", "y", "z">>

Digits == {"0", "1", "2", "3", "4", "5", "6", "7", "8", "9"}

LowerChar(c) ==
    IF \E i \in 1..Len(UpperCase) : UpperCase[i] = c
    THEN LowerCase[CHOOSE i \in 1..Len(UpperCase) : UpperCase[i] = c]
    ELSE c

Lower(s) == [i \in 1..Len(s) |-> LowerChar(s[i])]

RemoveChar(s, ch) == SelectSeq(s, LAMBDA c : c # ch)

IsSpace(c) == c = " "

\* The maximal runs of s over the positions in kept, in order: a run starts
\* at a kept position that follows none, and ends at one that precedes none.
Runs(s, kept) ==
    LET starts == {i \in kept : (i - 1) \notin kept}
        ends == {j \in kept : (j + 1) \notin kept}
        Nth(S, k) == CHOOSE i \in S : Cardinality({j \in S : j < i}) = k - 1
    IN  [k \in 1..Cardinality(starts) |-> SubSeq(s, Nth(starts, k), Nth(ends, k))]

\* str.split(): the maximal runs of non-whitespace characters
Split(s) == Runs(s, {i \in 1..Len(s) : ~IsSpace(s[i])})

\* main.py 150
EmotionWords(text) ==
    Split(RemoveChar(RemoveChar(Lower(text), "."), ","))

\* range(0, len(words)) instead of range(1, len(words)): at i = 0 the index
\* i-1 is -1, the last word
RepetitionCount_FromZero(words) ==
    Cardinality({i \in 1..Len(words) :
                    words[i] = words[IF i = 1 THEN Len(words) ELSE i - 1]})

\* main.py 151: sum([1 for i in range(1, len(words)) if words[i] == words[i-1]])
RepetitionCount(words) ==
    Cardinality({i \in 2..Len(words) : words[i] = words[i-1]})

(***************************************************************************)
(* The lexical analysis of the handlers (main.py 613-616 and 643):         *)
(* re.findall(r'\w+', ...), Counter, Counter.most_common(10).              *)
(***************************************************************************)
\* \w on a lower-cased str of these characters
IsWordChar(c) ==
    \/ \E i \in 1..Len(LowerCase) : LowerCase[i] = c
    \/ \E i \in 1..Len(UpperCase) : UpperCase[i] = c
    \/ c \in Digits
    \/ c = "_"

\* re.findall(r'\w+', s): the maximal runs of word characters
FindWords(s) == Runs(s, {i \in 1..Len(s) : IsWordChar(s[i])})

\* main.py 614
LexicalWords(text) == FindWords(Lower(text))

DistinctWords(words) == {words[i] : i \in 1..Len(words)}

\* Counter(words)[w]
WordCount(words, w) == Cardinality({i \in 1..Len(words) : words[i] = w})

\* main.py 615
Counter(words) == [w \in DistinctWords(words) |-> WordCount(words, w)]

FirstIndex(words, w) ==
    CHOOSE i \in 1..Len(words) :
        words[i] = w /\ \A j \in 1..(i - 1) : words[j] # w

\* the order of Counter.most_common: by count, the highest first, and words
\* of equal count in the order they were first met
ComesBefore(words, v, w) ==
    \/ WordCount(words, v) > WordCount(words, w)
    \/ /\ WordCount(words, v) = WordCount(words, w)
       /\ FirstIndex(words, v) < FirstIndex(words, w)

TopWords == 10

\* keeps every word
MostCommon_All(words, n) == Counter(words)

\* dict(Counter(words).most_common(n))
MostCommon(words, n) ==
    [w \in {w \in DistinctWords(words) :
               Cardinality({v \in DistinctWords(words) : ComesBefore(words, v, w)}) < n}
        |-> WordCount(words, w)]

(***************************************************************************)
(* Transcripts the program produces: the placeholders of the signal        *)
(* diagnostics (main.py 591-603) and a sample.                             *)
(***************************************************************************)
\* main.py 592: "Audio too short - please record for at least 2-3 seconds"
TooShortText ==
    <<"A", "u", "d", "i", "o", " ", "t", "o", "o", " ", "s", "h", "o", "r",
      "t", " ", "-", " ", "p", "l", "e", "a", "s", "e", " ", "r", "e", "c",
      "o", "r", "d", " ", "f", "o", "r", " ", "a", "t", " ", "l", "e", "a",
      "s", "t", " ", "2", "-", "3", " ", "s", "e", "c", "o", "n", "d", "s">>

\* main.py 594: "Audio too quiet - please speak louder or check microphone"
TooQuietText ==
    <<"A", "u", "d", "i", "o", " ", "t", "o", "o", " ", "q", "u", "i", "e",
      "t", " ", "-", " ", "p", "l", "e", "a", "s", "e", " ", "s", "p", "e",
      "a", "k", " ", "l", "o", "u", "d", "e", "r", " ", "o", "r", " ", "c",
      "h", "e", "c", "k", " ", "m", "i", "c", "r", "o", "p", "h", "o", "n",
      "e">>

\* main.py 596: "Very low audio signal - please check microphone settings"
LowSignalText ==
    <<"V", "e", "r", "y", " ", "l", "o", "w", " ", "a", "u", "d", "i", "o",
      " ", "s", "i", "g", "n", "a", "l", " ", "-", " ", "p", "l", "e", "a",
      "s", "e", " ", "c", "h", "e", "c", "k", " ", "m", "i", "c", "r", "o",
      "p", "h", "o", "n", "e", " ", "s", "e", "t", "t", "i", "n", "g", "s">>

\* main.py 598: "Speech not detected - please speak clearly and ensure good audio quality"
NotDetectedText ==
    <<"S", "p", "e", "e", "c", "h", " ", "n", "o", "t", " ", "d", "e", "t",
      "e", "c", "t", "e", "d", " ", "-", " ", "p", "l", "e", "a", "s", "e",
      " ", "s", "p", "e", "a", "k", " ", "c", "l", "e", "a", "r", "l", "y",
      " ", "a", "n", "d", " ", "e", "n", "s", "u", "r", "e", " ", "g", "o",
      "o", "d", " ", "a", "u", "d", "i", "o", " ", "q", "u", "a", "l", "i",
      "t", "y">>

\* main.py 603: "Could not understand audio - please try speaking more clearly, louder, or for a longer duration"
CouldNotUnderstandText ==
    <<"C", "o", "u", "l", "d", " ", "n", "o", "t", " ", "u", "n", "d", "e",
      "r", "s", "t", "a", "n", "d", " ", "a", "u", "d", "i", "o", " ", "-",
      " ", "p", "l", "e", "a", "s", "e", " ", "t", "r", "y", " ", "s", "p",
      "e", "a", "k", "i", "n", "g", " ", "m", "o", "r", "e", " ", "c", "l",
      "e", "a", "r", "l", "y", ",", " ", "l", "o", "u", "d", "e", "r", ",",
      " ", "o", "r", " ", "f", "o", "r", " ", "a", " ", "l", "o", "n", "g",
      "e", "r", " ", "d", "u", "r", "a", "t", "i", "o", "n">>

\* the opening of the sample transcript of main.py 214, without its first word: "I don't want to go. I don't want to. Please. Please."
ScenarioTranscript ==
    <<"I", " ", "d", "o", "n", "'", "t", " ", "w", "a", "n", "t", " ", "t",
      "o", " ", "g", "o", ".", " ", "I", " ", "d", "o", "n", "'", "t", " ",
      "w", "a", "n", "t", " ", "t", "o", ".", " ", "P", "l", "e", "a", "s",
      "e", ".", " ", "P", "l", "e", "a", "s", "e", ".">>

\* main.py 214, 252, 276: the transcript the routes pass to analyze_emotion
SampleTranscript ==
    <<"I", ".", ".", ".", " ", "I", " ", "d", "o", "n", "'", "t", " ", "w",
      "a", "n", "t", " ", "t", "o", " ", "g", "o", ".", " ", "I", " ", "d",
      "o", "n", "'", "t", " ", "w", "a", "n", "t", " ", "t", "o", ".", " ",
      "P", "l", "e", "a", "s", "e", ".", " ", "P", "l", "e", "a", "s", "e",
      ".", " ", "I", "t", "'", "s", " ", "t", "o", "o", " ", "l", "o", "u",
      "d", ".", " ", "I", "t", "'", "s", " ", "t", "o", "o", " ", "l", "o",
      "u", "d", ".", " ", "I", " ", "d", "o", "n", "'", "t", " ", "l", "i",
      "k", "e", " ", "i", "t", ".", " ", "I", " ", "w", "a", "n", "t", " ",
      "t", "o", " ", "g", "o", " ", "h", "o", "m", "e", ".", " ", "I", " ",
      "w", "a", "n", "t", " ", "m", "o", "m", ".", " ", "I", " ", "w", "a",
      "n", "t", " ", "m", "o", "m", ".">>

(***************************************************************************)
(* pandas Series.max() and Series.mean().  Of an empty series both are     *)
(* NaN: HasValue is then FALSE, and every comparison with NaN is False.    *)
(***************************************************************************)
HasValue(series) == series # <<>>

SeriesMax(series) ==
    CHOOSE m \in {series[i] : i \in 1..Len(series)} :
        \A i \in 1..Len(series) : series[i] <= m

RECURSIVE SeriesSum(_)
SeriesSum(series) ==
    IF series = <<>> THEN 0 ELSE Head(series) + SeriesSum(Tail(series))

\* the mean as <<sum, count>>; count 0 is NaN
SeriesMean(series) == <<SeriesSum(series), Len(series)>>

\* mean > 0.5, that is sum / count > 4 in eighths; NaN > 0.5 is False
MeanAboveHalf(mean) ==
    /\ mean[2] > 0
    /\ mean[1] > HighVolumeThreshold * mean[2]

(***************************************************************************)
(* The upload handlers: values of an invocation that has not started.      *)
(***************************************************************************)
NoBuffer == [by |-> "none", rate |-> 0, channels |-> 0, frames |-> 0]

NoUpload == [accepted |-> FALSE, size |-> 0]

NoTranscript == [kind |-> "empty", by |-> 0]

NoResponse == [kind |-> "none", status |-> 0, detail |-> "", fields |-> {}]

\* average_volume in units of 1/100, average_pitch in Hz
NoFeatures == [how |-> "none", average_pitch |-> 0, average_volume |-> 0]

UploadIdle ==
    /\ endpoint = "none"
    /\ pc = "idle"
    /\ upload = NoUpload
    /\ temp_path = FALSE
    /\ converted_path = FALSE
    /\ fs = {}
    /\ unlink_failed = {}
    /\ buffer = NoBuffer
    /\ strategies = <<>>
    /\ attempts = <<>>
    /\ transcript = NoTranscript
    /\ features = NoFeatures
    /\ stages = {}
    /\ exc = "none"
    /\ response = NoResponse

NoLexical == [status |-> "none", words |-> <<>>, word_frequency |-> <<>>,
              repetition_count |-> 0]

\* main.py 1002: the sockets that may connect to /ws/realtime
WebSockets == {"ws1", "ws2", "ws3"}

\* the callers of manager.broadcast: the endpoint coroutine of a socket
\* (main.py 1017) and the route get_current_emotion (main.py 265)
Broadcasters == WebSockets \cup {"http"}

\* a caller that has not called broadcast
NoBroadcast == [pc |-> "idle", idx |-> 0, to |-> "none", sent |-> <<>>,
                whole |-> {}, stable |-> TRUE]

\* main.py 48 and 62 (manager = ConnectionManager())
ManagerIdle ==
    /\ active_connections = <<>>
    /\ ws = [w \in WebSockets |-> "new"]
    /\ bc = [b \in Broadcasters |-> NoBroadcast]

\* transcript.py 95: audio_log.json does not exist yet
NoLogFile == [exists |-> FALSE, text |-> <<>>]

LogIdle ==
    /\ log_file = NoLogFile
    /\ utc_now = 0
    /\ saved = <<>>
    /\ last_call = "none"

\* transcript.py 30 and 110: the queue and the buffer are empty, main_loop
\* stands at audio_queue.get()
LoopIdle ==
    /\ captured = <<>>
    /\ audio_queue = <<>>
    /\ audio_buffer = <<>>
    /\ combined = <<>>
    /\ processed = <<>>
    /\ loop_pc = "get"

\* main.py 1012 and 265: the first broadcast of a cycle of the endpoint, and
\* the only one of the route, is the one inside get_current_emotion
EndpointIdle ==
    /\ dropped = {}
    /\ site = [b \in Broadcasters |-> 265]

OtherIdle ==
    /\ lexical = NoLexical
    /\ ManagerIdle
    /\ LogIdle
    /\ LoopIdle
    /\ EndpointIdle

(***************************************************************************)
(* analyze_emotion, main.py 143-197.                                       *)
(***************************************************************************)
\* high_bpm tested with >= instead of >
EmotionFactors_Inclusive(text, bpm, volume, compound) ==
    [ high_bpm |-> HasValue(bpm) /\ SeriesMax(bpm) >= HighBpmThreshold,
      high_volume |-> MeanAboveHalf(SeriesMean(volume)),
      repetition_alert |->
          RepetitionCount(EmotionWords(text)) >= RepetitionAlertThreshold,
      negative_sentiment |-> compound < NegativeSentimentThreshold ]

\* repetition_alert raised by the first repetition
EmotionFactors_AlertAtOne(text, bpm, volume, compound) ==
    [ high_bpm |-> HasValue(bpm) /\ SeriesMax(bpm) > HighBpmThreshold,
      high_volume |-> MeanAboveHalf(SeriesMean(volume)),
      repetition_alert |-> RepetitionCount(EmotionWords(text)) >= 1,
      negative_sentiment |-> compound < NegativeSentimentThreshold ]

\* main.py 163-168
EmotionFactors(text, bpm, volume, compound) ==
    [ high_bpm |-> HasValue(bpm) /\ SeriesMax(bpm) > HighBpmThreshold,
      high_volume |-> MeanAboveHalf(SeriesMean(volume)),
      repetition_alert |->
          RepetitionCount(EmotionWords(text)) >= RepetitionAlertThreshold,
      negative_sentiment |-> compound < NegativeSentimentThreshold ]

\* the Sad branch tested before the Anxious branch
EmotionDecision_SadFirst(factors, compound) ==
    IF factors.negative_sentiment
    THEN [emotion |-> "Sad", confidence |-> ConfidenceSad]
    ELSE IF factors.high_bpm /\ factors.high_volume /\ factors.repetition_alert
          /\ factors.negative_sentiment
    THEN [emotion |-> "Anxious", confidence |-> ConfidenceAnxious]
    ELSE IF compound > HappySentimentThreshold
    THEN [emotion |-> "Happy", confidence |-> ConfidenceHappy]
    ELSE [emotion |-> "Neutral", confidence |-> ConfidenceNeutral]

\* the last branch written as a test (compound < 0.3) instead of an else:
\* at exactly 0.3 no branch assigns the label
EmotionDecision_NoElse(factors, compound) ==
    IF factors.high_bpm /\ factors.high_volume /\ factors.repetition_alert
          /\ factors.negative_sentiment
    THEN [emotion |-> "Anxious", confidence |-> ConfidenceAnxious]
    ELSE IF factors.negative_sentiment
    THEN [emotion |-> "Sad", confidence |-> ConfidenceSad]
    ELSE IF compound > HappySentimentThreshold
    THEN [emotion |-> "Happy", confidence |-> ConfidenceHappy]
    ELSE IF compound < HappySentimentThreshold
    THEN [emotion |-> "Neutral", confidence |-> ConfidenceNeutral]
    ELSE [emotion |-> "", confidence |-> 0]

\* main.py 170-186
EmotionDecision(factors, compound) ==
    IF factors.high_bpm /\ factors.high_volume /\ factors.repetition_alert
          /\ factors.negative_sentiment
    THEN [emotion |-> "Anxious", confidence |-> ConfidenceAnxious]
    ELSE IF factors.negative_sentiment
    THEN [emotion |-> "Sad", confidence |-> ConfidenceSad]
    ELSE IF compound > HappySentimentThreshold
    THEN [emotion |-> "Happy", confidence |-> ConfidenceHappy]
    ELSE [emotion |-> "Neutral", confidence |-> ConfidenceNeutral]

NoFactors == [high_bpm |-> FALSE, high_volume |-> FALSE,
              repetition_alert |-> FALSE, negative_sentiment |-> FALSE]

NoAnalysis == [status |-> "none", emotion |-> "", confidence |-> 0,
               factors |-> NoFactors, compound |-> 0, repetition_count |-> 0,
               max_bpm |-> 0, avg_volume |-> <<0, 0>>]

\* main.py 188-197.  int(max_bpm) raises ValueError when max_bpm is NaN, that
\* is, when the bpm series is empty; float(avg_volume) takes NaN.
analyze_emotion(text, bpm, volume, compound) ==
    LET factors == EmotionFactors(text, bpm, volume, compound)
        decision == EmotionDecision(factors, compound)
    IN  IF ~HasValue(bpm)
        THEN [NoAnalysis EXCEPT !.status = "raised"]
        ELSE [status |-> "returned",
              emotion |-> decision.emotion,
              confidence |-> decision.confidence,
              factors |-> factors,
              compound |-> compound,
              repetition_count |-> RepetitionCount(EmotionWords(text)),
              max_bpm |-> SeriesMax(bpm),
              avg_volume |-> SeriesMean(volume)]

\* main.py 38-43
InitialEmotionData == [current_emotion |-> "Neutral", confidence |-> InitialConfidence]

InitEmotion ==
    /\ UploadIdle
    /\ OtherIdle
    /\ heart_rate_df \in BoundedSeq(BpmValues, MaxSeriesLen)
    /\ volume_df \in BoundedSeq(VolumeValues, MaxSeriesLen)
    /\ em_transcript \in BoundedSeq(Alphabet, MaxTranscriptLen)
    /\ em_compound \in CompoundValues
    /\ analysis = NoAnalysis
    /\ again = NoAnalysis
    /\ emotion_data = InitialEmotionData

\* A caller (main.py 216, 254, 278, 948) calls analyze_emotion.
CallAnalyzeEmotion ==
    /\ analysis.status = "none"
    /\ analysis' = analyze_emotion(em_transcript, heart_rate_df, volume_df, em_compound)
    /\ UNCHANGED <<heart_rate_df, volume_df, em_transcript, em_compound, again,
                   emotion_data>>
    /\ UNCHANGED <<up_vars, other_vars>>

\* A later call with the same arguments.
RepeatAnalyzeEmotion ==
    /\ analysis.status # "none"
    /\ again.status = "none"
    /\ again' = analyze_emotion(em_transcript, heart_rate_df, volume_df, em_compound)
    /\ UNCHANGED <<heart_rate_df, volume_df, em_transcript, em_compound, analysis,
                   emotion_data>>
    /\ UNCHANGED <<up_vars, other_vars>>

NextEmotion == CallAnalyzeEmotion \/ RepeatAnalyzeEmotion

SpecEmotion == InitEmotion /\ [][NextEmotion]_vars

(***************************************************************************)
(* The two tokenizations side by side: one transcript given to             *)
(* analyze_emotion and to the lexical analysis of analyze_audio_simple.    *)
(***************************************************************************)
LexAlphabet == {"a", "A", " ", "!", "."}

\* a heart-rate series of maximum 105 and a volume series of mean 0.6
ScenarioBpm == <<98, 105>>
ScenarioVolume == <<5, 5, 5, 5, 4>>

LexicalTranscripts ==
    BoundedSeq(LexAlphabet, MaxTranscriptLen)
    \cup {TooShortText, TooQuietText, LowSignalText, NotDetectedText,
          CouldNotUnderstandText, ScenarioTranscript, SampleTranscript}

InitLexical ==
    /\ UploadIdle
    /\ heart_rate_df = ScenarioBpm
    /\ volume_df = ScenarioVolume
    /\ em_transcript \in LexicalTranscripts
    /\ em_compound \in {NegativeSentimentThreshold - 1, HappySentimentThreshold + 1}
    /\ analysis = NoAnalysis
    /\ again = NoAnalysis
    /\ emotion_data = InitialEmotionData
    /\ OtherIdle

\* main.py 614-616 and 643: words, word_freq, repetition_count and the
\* word_frequency of the record
LexicalAnalysis ==
    /\ lexical.status = "none"
    /\ LET words == LexicalWords(em_transcript)
       IN  lexical' = [status |-> "returned",
                       words |-> words,
                       word_frequency |-> MostCommon(words, TopWords),
                       repetition_count |-> RepetitionCount(words)]
    /\ UNCHANGED <<em_vars, up_vars, cm_vars, log_vars, ml_vars, ep_vars>>

NextLexical == CallAnalyzeEmotion \/ LexicalAnalysis

SpecLexical == InitLexical /\ [][NextLexical]_vars

(***************************************************************************)
(* The upload handlers.  Every call of a library that can raise (a decoder, *)
(* a file operation, a recognizer) is a choice between its outcomes.       *)
(***************************************************************************)
TargetRate == 16000
FallbackSeconds == 5
RecognitionAttempts == 4
LibrosaDefaultRate == 22050

RecordFields == {"transcript", "sentiment_score", "repetition_count",
                 "average_pitch", "average_volume", "word_frequency"}

\* What an upload can decode to: its native sample rate, channel count and
\* frame count (0: a container with no audio data; 8000 and 48000: under and
\* over one second at either rate).
NativeRates == {TargetRate, 44100}
NativeChannels == {1, 2}
NativeFrames == {0, 8000, 48000}

Uploads == [accepted : BOOLEAN, size : {0, 1}]

\* librosa.resample: ceil(n * target / orig) samples
Resample(n, orig, target) == (n * target + orig - 1) \div orig

\* str.strip() == '' and == ''
IsBlank(t) == t.kind \in {"empty", "whitespace"}
IsEmpty(t) == t.kind = "empty"

\* The outcomes of one recognizer attempt (main.py 550-577):
\*   text            a non-blank str
\*   envelope_text   a dict whose first alternative has a non-blank transcript
\*   whitespace      a str of whitespace only (truthy, blank)
\*   empty           a falsy result: '', [], None
\*   envelope_empty  a dict with an empty 'alternative' list
\*   no_speech       sr.UnknownValueError
\*   service_error   sr.RequestError
\*   error           any other Exception
AttemptOutcomes == {"text", "envelope_text", "whitespace", "empty",
                    "envelope_empty", "no_speech", "service_error", "error"}

\* main.py 536-545: the list recognition_attempts, by position
AttemptKind(n) ==
    CASE n = 1 -> "google_en_US"
      [] n = 2 -> "google_en_US_show_all"
      [] n = 3 -> "google_en"
      [] OTHER -> "sphinx"

\* the value of transcript after an attempt with this outcome (main.py 552-563)
TranscriptAfter(t, n, outcome) ==
    CASE outcome \in {"text", "envelope_text"} -> [kind |-> "text", by |-> n]
      [] outcome = "whitespace" -> [kind |-> "whitespace", by |-> n]
      [] OTHER -> t

\* whether the attempt reaches "if transcript.strip(): break" (main.py 566)
ReachesBreakTest(outcome) == outcome \in {"text", "envelope_text", "whitespace"}

\* main.py 591-598, on the measured duration (frames / rate), peak amplitude
\* and RMS energy; peak and rms in units of 1/10000
DiagnosticPlaceholder(frames, rate, peak, rms) ==
    IF frames < rate THEN "too_short"
    ELSE IF peak < 100 THEN "too_quiet"
    ELSE IF rms < 10 THEN "low_signal"
    ELSE "not_detected"

SignalLevels == {<<0, 0>>, <<99, 9>>, <<100, 9>>, <<100, 10>>}

\* main.py 619-635: np.mean(np.abs(test_y)) in units of 1/100, the mean
\* spectral centroid in Hz
MeanAbsValues == {0, 9, 11}
PitchValues == {0, 440}

VolumeGain == 10
VolumeCap == 100
DefaultPitch == 150
DefaultVolume == 50

\* without min(..., 1.0)
NormalizedVolume_NoCap(m) == m * VolumeGain

\* main.py 627: min(average_volume * 10, 1.0)
NormalizedVolume(m) ==
    IF m * VolumeGain < VolumeCap THEN m * VolumeGain ELSE VolumeCap

\* HTTPException(status_code=400) details, and the generic Exception
ClientErrors == {"EmptyInput", "UnsupportedFormat", "ConversionFailed"}

\* without "except HTTPException: raise": every exception becomes a 500
ErrorResponse_All500(e) ==
    [kind |-> "error", status |-> 500, detail |-> "AnalysisFailed", fields |-> {}]

\* main.py 646-651 and 771-776: an HTTPException is re-raised as it is, any
\* other exception becomes a 500
ErrorResponse(e) ==
    IF e \in ClientErrors
    THEN [kind |-> "error", status |-> 400, detail |-> e, fields |-> {}]
    ELSE [kind |-> "error", status |-> 500, detail |-> "AnalysisFailed", fields |-> {}]

\* the files the cleanup of analyze_audio_simple tries to unlink (main.py 654-655)
CleanupTargets ==
    {f \in fs : (f = "original" /\ temp_path) \/ (f = "converted" /\ converted_path)}

(***************************************************************************)
(* analyze_audio_simple, main.py 417-660.                                  *)
(***************************************************************************)
\* without the empty check: every upload is saved
S_Receive_NoEmptyCheck ==
    /\ pc = "idle"
    /\ \E u \in Uploads : upload' = u
    /\ pc' = "s_save"
    /\ endpoint' = "simple"
    /\ UNCHANGED <<temp_path, converted_path, fs, unlink_failed, buffer, strategies,
                   attempts, transcript, features, stages, exc, response>>
    /\ UNCHANGED <<em_vars, other_vars>>

\* main.py 418-429: the call, file.read() and the empty check
S_Receive ==
    /\ pc = "idle"
    /\ \E u \in Uploads :
        /\ upload' = u
        /\ IF u.size = 0
           THEN exc' = "EmptyInput" /\ pc' = "s_finally"
           ELSE exc' = exc /\ pc' = "s_save"
    /\ endpoint' = "simple"
    /\ UNCHANGED <<temp_path, converted_path, fs, unlink_failed, buffer, strategies,
                   attempts, transcript, features, stages, response>>
    /\ UNCHANGED <<em_vars, other_vars>>

\* main.py 432-443: NamedTemporaryFile(delete=False), write, temp_path and
\* converted_path assigned.  When write raises, the file exists and temp_path
\* is still None.
S_Save ==
    /\ pc = "s_save"
    /\ stages' = stages \cup {"save"}
    /\ \/ /\ fs' = fs \cup {"original"}
          /\ temp_path' = TRUE
          /\ converted_path' = TRUE
          /\ pc' = "s_method1"
          /\ exc' = exc
       \/ /\ \E left \in BOOLEAN : fs' = IF left THEN fs \cup {"original"} ELSE fs
          /\ exc' = "Exception"
          /\ pc' = "s_finally"
          /\ UNCHANGED <<temp_path, converted_path>>
    /\ UNCHANGED <<endpoint, upload, unlink_failed, buffer, strategies, attempts,
                   transcript, features, response>>
    /\ UNCHANGED <<em_vars, other_vars>>

\* without the resampling of main.py 451-453: the decoded audio keeps its rate
S_Method1_NoResample ==
    /\ pc = "s_method1"
    /\ stages' = stages \cup {"normalize"}
    /\ \/ /\ \E r \in NativeRates, n \in NativeFrames :
               buffer' = [by |-> "direct", rate |-> r, channels |-> 1, frames |-> n]
          /\ fs' = fs \cup {"converted"}
          /\ strategies' = Append(strategies, [name |-> "direct", ok |-> TRUE])
          /\ pc' = "s_open"
       \/ /\ \E left \in BOOLEAN : fs' = IF left THEN fs \cup {"converted"} ELSE fs
          /\ strategies' = Append(strategies, [name |-> "direct", ok |-> FALSE])
          /\ pc' = "s_method2"
          /\ UNCHANGED buffer
    /\ UNCHANGED <<endpoint, upload, temp_path, converted_path, unlink_failed,
                   attempts, transcript, features, exc, response>>
    /\ UNCHANGED <<em_vars, other_vars>>

\* Method 2 written after the try of Method 1 instead of in its except
\* clause: it runs after a successful direct decode too
S_Method1_FallThrough ==
    /\ pc = "s_method1"
    /\ stages' = stages \cup {"normalize"}
    /\ \/ /\ \E r \in NativeRates, n \in NativeFrames :
               buffer' = [by |-> "direct", rate |-> TargetRate, channels |-> 1,
                          frames |-> IF r # TargetRate THEN Resample(n, r, TargetRate)
                                     ELSE n]
          /\ fs' = fs \cup {"converted"}
          /\ strategies' = Append(strategies, [name |-> "direct", ok |-> TRUE])
          /\ pc' = "s_method2"
       \/ /\ \E left \in BOOLEAN : fs' = IF left THEN fs \cup {"converted"} ELSE fs
          /\ strategies' = Append(strategies, [name |-> "direct", ok |-> FALSE])
          /\ pc' = "s_method2"
          /\ UNCHANGED buffer
    /\ UNCHANGED <<endpoint, upload, temp_path, converted_path, unlink_failed,
                   attempts, transcript, features, exc, response>>
    /\ UNCHANGED <<em_vars, other_vars>>

\* main.py 446-461: librosa.load(sr=None) (mono), resample to 16 kHz, sf.write.
\* A failure may leave a partly written converted file.
S_Method1 ==
    /\ pc = "s_method1"
    /\ stages' = stages \cup {"normalize"}
    /\ \/ /\ \E r \in NativeRates, n \in NativeFrames :
               buffer' = [by |-> "direct", rate |-> TargetRate, channels |-> 1,
                          frames |-> IF r # TargetRate THEN Resample(n, r, TargetRate)
                                     ELSE n]
          /\ fs' = fs \cup {"converted"}
          /\ strategies' = Append(strategies, [name |-> "direct", ok |-> TRUE])
          /\ pc' = "s_open"
       \/ /\ \E left \in BOOLEAN : fs' = IF left THEN fs \cup {"converted"} ELSE fs
          /\ strategies' = Append(strategies, [name |-> "direct", ok |-> FALSE])
          /\ pc' = "s_method2"
          /\ UNCHANGED buffer
    /\ UNCHANGED <<endpoint, upload, temp_path, converted_path, unlink_failed,
                   attempts, transcript, features, exc, response>>
    /\ UNCHANGED <<em_vars, other_vars>>

\* a failed pass-through raises the 400 at once instead of falling back
S_Method2_NoFallback ==
    /\ pc = "s_method2"
    /\ \/ /\ \E r \in NativeRates, c \in NativeChannels, n \in NativeFrames :
               buffer' = [by |-> "passthrough", rate |-> r, channels |-> c,
                          frames |-> n]
          /\ fs' = fs \cup {"converted"}
          /\ strategies' = Append(strategies, [name |-> "passthrough", ok |-> TRUE])
          /\ pc' = "s_open"
          /\ exc' = exc
       \/ /\ \E left \in BOOLEAN : fs' = IF left THEN fs \cup {"converted"} ELSE fs
          /\ strategies' = Append(strategies, [name |-> "passthrough", ok |-> FALSE])
          /\ exc' = "ConversionFailed"
          /\ pc' = "s_finally"
          /\ UNCHANGED buffer
    /\ UNCHANGED <<endpoint, upload, temp_path, converted_path, unlink_failed,
                   attempts, transcript, features, stages, response>>
    /\ UNCHANGED <<em_vars, other_vars>>

\* main.py 464-477: shutil.copy2, then a one-second test read by
\* speech_recognition.  The copy keeps the upload's own rate and channels.
S_Method2 ==
    /\ pc = "s_method2"
    /\ \/ /\ \E r \in NativeRates, c \in NativeChannels, n \in NativeFrames :
               buffer' = [by |-> "passthrough", rate |-> r, channels |-> c,
                          frames |-> n]
          /\ fs' = fs \cup {"converted"}
          /\ strategies' = Append(strategies, [name |-> "passthrough", ok |-> TRUE])
          /\ pc' = "s_open"
       \/ /\ \E left \in BOOLEAN : fs' = IF left THEN fs \cup {"converted"} ELSE fs
          /\ strategies' = Append(strategies, [name |-> "passthrough", ok |-> FALSE])
          /\ pc' = "s_method3"
          /\ UNCHANGED buffer
    /\ UNCHANGED <<endpoint, upload, temp_path, converted_path, unlink_failed,
                   attempts, transcript, features, stages, exc, response>>
    /\ UNCHANGED <<em_vars, other_vars>>

\* main.py 480-507: five seconds of 16-bit silence, 16 kHz mono; if writing it
\* raises, HTTPException(400)
S_Method3 ==
    /\ pc = "s_method3"
    /\ \/ /\ buffer' = [by |-> "synthetic", rate |-> TargetRate, channels |-> 1,
                        frames |-> TargetRate * FallbackSeconds]
          /\ fs' = fs \cup {"converted"}
          /\ strategies' = Append(strategies, [name |-> "synthetic", ok |-> TRUE])
          /\ pc' = "s_open"
          /\ exc' = exc
       \/ /\ \E left \in BOOLEAN : fs' = IF left THEN fs \cup {"converted"} ELSE fs
          /\ strategies' = Append(strategies, [name |-> "synthetic", ok |-> FALSE])
          /\ exc' = "ConversionFailed"
          /\ pc' = "s_finally"
          /\ UNCHANGED buffer
    /\ UNCHANGED <<endpoint, upload, temp_path, converted_path, unlink_failed,
                   attempts, transcript, features, stages, response>>
    /\ UNCHANGED <<em_vars, other_vars>>

\* main.py 510-533 and 608-610: Recognizer(), AudioFile(converted_path),
\* adjust_for_ambient_noise, record.  If one raises, the outer handler sets
\* transcript to "Speech recognition failed: ...".
S_OpenRecognizer ==
    /\ pc = "s_open"
    /\ stages' = stages \cup {"recognize"}
    /\ \/ /\ pc' = "s_attempt"
          /\ UNCHANGED transcript
       \/ /\ transcript' = [kind |-> "recognition_failed", by |-> 0]
          /\ pc' = "s_lexical"
    /\ UNCHANGED <<endpoint, upload, temp_path, converted_path, fs, unlink_failed,
                   buffer, strategies, attempts, features, exc, response>>
    /\ UNCHANGED <<em_vars, other_vars>>

\* as if the handlers of main.py 569-577 were missing: an attempt that raises
\* leaves the loop and the outer handler of 605-610 makes the transcript
S_Attempt_NoSwallow ==
    /\ pc = "s_attempt"
    /\ \E outcome \in AttemptOutcomes :
        LET n == Len(attempts) + 1
            t == TranscriptAfter(transcript, n, outcome)
            raised == outcome \in {"no_speech", "service_error", "error"}
        IN  /\ attempts' = Append(attempts, [n |-> n, kind |-> AttemptKind(n),
                                              outcome |-> outcome])
            /\ transcript' = IF raised THEN [kind |-> "recognition_failed", by |-> 0]
                             ELSE t
            /\ pc' = IF raised THEN "s_lexical"
                     ELSE IF (ReachesBreakTest(outcome) /\ ~IsBlank(t))
                             \/ n = RecognitionAttempts
                     THEN "s_diagnose" ELSE "s_attempt"
    /\ UNCHANGED <<endpoint, upload, temp_path, converted_path, fs, unlink_failed,
                   buffer, strategies, features, stages, exc, response>>
    /\ UNCHANGED <<em_vars, other_vars>>

\* without the break of main.py 566-567: all four attempts always run
S_Attempt_NoBreak ==
    /\ pc = "s_attempt"
    /\ \E outcome \in AttemptOutcomes :
        LET n == Len(attempts) + 1
            t == TranscriptAfter(transcript, n, outcome)
        IN  /\ attempts' = Append(attempts, [n |-> n, kind |-> AttemptKind(n),
                                              outcome |-> outcome])
            /\ transcript' = t
            /\ pc' = IF n = RecognitionAttempts THEN "s_diagnose" ELSE "s_attempt"
    /\ UNCHANGED <<endpoint, upload, temp_path, converted_path, fs, unlink_failed,
                   buffer, strategies, features, stages, exc, response>>
    /\ UNCHANGED <<em_vars, other_vars>>

\* main.py 547-577: one turn of the loop over recognition_attempts
S_Attempt ==
    /\ pc = "s_attempt"
    /\ \E outcome \in AttemptOutcomes :
        LET n == Len(attempts) + 1
            t == TranscriptAfter(transcript, n, outcome)
        IN  /\ attempts' = Append(attempts, [n |-> n, kind |-> AttemptKind(n),
                                              outcome |-> outcome])
            /\ transcript' = t
            /\ pc' = IF (ReachesBreakTest(outcome) /\ ~IsBlank(t))
                        \/ n = RecognitionAttempts
                     THEN "s_diagnose" ELSE "s_attempt"
    /\ UNCHANGED <<endpoint, upload, temp_path, converted_path, fs, unlink_failed,
                   buffer, strategies, features, stages, exc, response>>
    /\ UNCHANGED <<em_vars, other_vars>>

\* main.py 580-603: with no transcript, the signal diagnostics.  np.max of an
\* empty array raises, as librosa.load may, and the handler at 601 answers.
S_Diagnose ==
    /\ pc = "s_diagnose"
    /\ IF ~IsBlank(transcript)
       THEN UNCHANGED transcript
       ELSE \/ /\ buffer.frames > 0
               /\ \E lv \in SignalLevels :
                    /\ buffer.by = "synthetic" => lv = <<0, 0>>
                    /\ transcript' =
                         [kind |-> DiagnosticPlaceholder(buffer.frames, buffer.rate,
                                                         lv[1], lv[2]),
                          by |-> 0]
            \/ transcript' = [kind |-> "could_not_understand", by |-> 0]
    /\ pc' = "s_lexical"
    /\ UNCHANGED <<endpoint, upload, temp_path, converted_path, fs, unlink_failed,
                   buffer, strategies, attempts, features, stages, exc, response>>
    /\ UNCHANGED <<em_vars, other_vars>>

\* main.py 613-616: sentiment, words, word_freq, repetition_count
S_Lexical ==
    /\ pc = "s_lexical"
    /\ stages' = stages \cup {"lexical"}
    /\ pc' = "s_features"
    /\ UNCHANGED <<endpoint, upload, temp_path, converted_path, fs, unlink_failed,
                   buffer, strategies, attempts, transcript, features, exc, response>>
    /\ UNCHANGED <<em_vars, other_vars>>

\* main.py 619-635: the features of the converted file, or both defaults
\* when the file has no samples or a step raises.  A silent buffer has mean
\* absolute value 0.
S_Features ==
    /\ pc = "s_features"
    /\ stages' = stages \cup {"acoustic"}
    /\ \/ /\ buffer.frames > 0
          /\ \E p \in PitchValues, m \in MeanAbsValues :
               /\ buffer.by = "synthetic" => m = 0
               /\ features' = [how |-> "computed", average_pitch |-> p,
                                average_volume |-> NormalizedVolume(m)]
       \/ features' = [how |-> "default", average_pitch |-> DefaultPitch,
                        average_volume |-> DefaultVolume]
    /\ pc' = "s_return"
    /\ UNCHANGED <<endpoint, upload, temp_path, converted_path, fs, unlink_failed,
                   buffer, strategies, attempts, transcript, exc, response>>
    /\ UNCHANGED <<em_vars, other_vars>>

\* main.py 637-644
S_Return ==
    /\ pc = "s_return"
    /\ response' = [kind |-> "record", status |-> 200, detail |-> "",
                    fields |-> RecordFields]
    /\ pc' = "s_finally"
    /\ UNCHANGED <<endpoint, upload, temp_path, converted_path, fs, unlink_failed,
                   buffer, strategies, attempts, transcript, features, stages, exc>>
    /\ UNCHANGED <<em_vars, other_vars>>

\* a cleanup that unlinks temp_path only and forgets converted_path
S_Finally_OriginalOnly ==
    /\ pc = "s_finally"
    /\ \E failed \in SUBSET (CleanupTargets \cap {"original"}) :
        /\ fs' = (fs \ {"original"}) \cup failed
        /\ unlink_failed' = failed
    /\ response' = IF exc = "none" THEN response ELSE ErrorResponse(exc)
    /\ pc' = "done"
    /\ UNCHANGED <<endpoint, upload, temp_path, converted_path, buffer, strategies,
                   attempts, transcript, features, stages, exc>>
    /\ UNCHANGED <<em_vars, other_vars>>

\* main.py 646-660: the except clauses and the finally block.  os.unlink is
\* tried on each assigned path that exists; if it raises, the error is logged
\* and the file stays.
S_Finally ==
    /\ pc = "s_finally"
    /\ \E failed \in SUBSET CleanupTargets :
        /\ fs' = (fs \ CleanupTargets) \cup failed
        /\ unlink_failed' = failed
    /\ response' = IF exc = "none" THEN response ELSE ErrorResponse(exc)
    /\ pc' = "done"
    /\ UNCHANGED <<endpoint, upload, temp_path, converted_path, buffer, strategies,
                   attempts, transcript, features, stages, exc>>
    /\ UNCHANGED <<em_vars, other_vars>>

(***************************************************************************)
(* analyze_audio, main.py 664-776.                                         *)
(***************************************************************************)
\* without the declared-type check of main.py 670-672
A_Receive_NoTypeCheck ==
    /\ pc = "idle"
    /\ \E u \in Uploads :
        /\ upload' = u
        /\ IF u.size = 0
           THEN /\ exc' = "EmptyInput"
                /\ response' = ErrorResponse("EmptyInput")
                /\ pc' = "done"
           ELSE /\ UNCHANGED <<exc, response>>
                /\ pc' = "a_save"
    /\ endpoint' = "audio"
    /\ UNCHANGED <<temp_path, converted_path, fs, unlink_failed, buffer, strategies,
                   attempts, transcript, features, stages>>
    /\ UNCHANGED <<em_vars, other_vars>>

\* main.py 665-678: the declared-type check (outside the try), file.read()
\* and the empty check (inside it; "except HTTPException: raise")
A_Receive ==
    /\ pc = "idle"
    /\ \E u \in Uploads :
        /\ upload' = u
        /\ IF ~u.accepted
           THEN /\ exc' = "UnsupportedFormat"
                /\ response' = ErrorResponse("UnsupportedFormat")
                /\ pc' = "done"
           ELSE IF u.size = 0
           THEN /\ exc' = "EmptyInput"
                /\ response' = ErrorResponse("EmptyInput")
                /\ pc' = "done"
           ELSE /\ UNCHANGED <<exc, response>>
                /\ pc' = "a_save"
    /\ endpoint' = "audio"
    /\ UNCHANGED <<temp_path, converted_path, fs, unlink_failed, buffer, strategies,
                   attempts, transcript, features, stages>>
    /\ UNCHANGED <<em_vars, other_vars>>

\* main.py 683-685, before the inner try: a failure goes to the outer
\* "except Exception" (500) and nothing unlinks the file
A_Save ==
    /\ pc = "a_save"
    /\ stages' = stages \cup {"save"}
    /\ \/ /\ fs' = fs \cup {"original"}
          /\ temp_path' = TRUE
          /\ pc' = "a_load"
          /\ UNCHANGED <<exc, response>>
       \/ /\ \E left \in BOOLEAN : fs' = IF left THEN fs \cup {"original"} ELSE fs
          /\ exc' = "Exception"
          /\ response' = ErrorResponse("Exception")
          /\ pc' = "done"
          /\ UNCHANGED temp_path
    /\ UNCHANGED <<endpoint, upload, converted_path, unlink_failed, buffer,
                   strategies, attempts, transcript, features>>
    /\ UNCHANGED <<em_vars, other_vars>>

\* main.py 691-696: y, sr = librosa.load(temp_path), mono at librosa's default
\* rate; a failure is raised again as Exception("Could not load audio file")
A_Load ==
    /\ pc = "a_load"
    /\ stages' = stages \cup {"normalize"}
    /\ \/ /\ \E r \in NativeRates, n \in NativeFrames :
               buffer' = [by |-> "load", rate |-> LibrosaDefaultRate, channels |-> 1,
                          frames |-> Resample(n, r, LibrosaDefaultRate)]
          /\ strategies' = Append(strategies, [name |-> "load", ok |-> TRUE])
          /\ pc' = "a_recognizer"
          /\ exc' = exc
       \/ /\ strategies' = Append(strategies, [name |-> "load", ok |-> FALSE])
          /\ exc' = "Exception"
          /\ pc' = "a_finally"
          /\ UNCHANGED buffer
    /\ UNCHANGED <<endpoint, upload, temp_path, converted_path, fs, unlink_failed,
                   attempts, transcript, features, response>>
    /\ UNCHANGED <<em_vars, other_vars>>

\* main.py 699: r = sr.Recognizer().  The assignment "y, sr = ..." at 692
\* makes sr a local of analyze_audio, bound to the sample rate (an int) and
\* no longer the speech_recognition module: the attribute access raises
\* AttributeError, outside the try of 702-718.
A_Recognizer ==
    /\ pc = "a_recognizer"
    /\ stages' = stages \cup {"recognize"}
    /\ exc' = "Exception"
    /\ pc' = "a_finally"
    /\ UNCHANGED <<endpoint, upload, temp_path, converted_path, fs, unlink_failed,
                   buffer, strategies, attempts, transcript, features, response>>
    /\ UNCHANGED <<em_vars, other_vars>>

\* main.py 763-776: the finally block (os.unlink, its failure logged) and the
\* except clauses
A_Finally ==
    /\ pc = "a_finally"
    /\ \E failed \in SUBSET CleanupTargets :
        /\ fs' = (fs \ CleanupTargets) \cup failed
        /\ unlink_failed' = failed
    /\ response' = IF exc = "none" THEN response ELSE ErrorResponse(exc)
    /\ pc' = "done"
    /\ UNCHANGED <<endpoint, upload, temp_path, converted_path, buffer, strategies,
                   attempts, transcript, features, stages, exc>>
    /\ UNCHANGED <<em_vars, other_vars>>

(***************************************************************************)
(* One invocation of either handler.                                       *)
(***************************************************************************)
EmotionIdle ==
    /\ heart_rate_df = <<>>
    /\ volume_df = <<>>
    /\ em_transcript = <<>>
    /\ em_compound = 0
    /\ analysis = NoAnalysis
    /\ again = NoAnalysis
    /\ emotion_data = InitialEmotionData

Init == EmotionIdle /\ UploadIdle /\ OtherIdle

Next ==
    \/ S_Receive \/ S_Save \/ S_Method1 \/ S_Method2 \/ S_Method3
    \/ S_OpenRecognizer \/ S_Attempt \/ S_Diagnose \/ S_Lexical \/ S_Features
    \/ S_Return \/ S_Finally
    \/ A_Receive \/ A_Save \/ A_Load \/ A_Recognizer \/ A_Finally

Spec == Init /\ [][Next]_vars

(***************************************************************************)
(* The ConnectionManager, main.py 46-62, and the coroutines that call it.  *)
(* The event loop runs one coroutine at a time, from one await to the      *)
(* next: an action is the code between two awaits.                         *)
(***************************************************************************)
\* the broadcast calls made in one run of the model; calls do not act on one
\* another, they only read the list
MaxBroadcasts == 1

InList(w) == \E i \in 1..Len(active_connections) : active_connections[i] = w

\* list.remove(x): the list without the first occurrence of x
Remove(list, x) ==
    LET i == CHOOSE i \in 1..Len(list) :
                 list[i] = x /\ \A j \in 1..(i - 1) : list[j] # x
    IN  SubSeq(list, 1, i - 1) \o SubSeq(list, i + 1, Len(list))

\* the broadcast of b is suspended in "await connection.send_text(...)"
Sending(b) == bc[b].pc = "sending"

\* What a change of the list means to the broadcasts in progress.  The
\* fields whole (the sockets in the list since the call began) and stable
\* (the list has not changed since) observe the call, the code has no such
\* fields.
NoteChange(removed) ==
    [b \in Broadcasters |->
        IF Sending(b)
        THEN [bc[b] EXCEPT !.stable = FALSE, !.whole = @ \ removed]
        ELSE bc[b]]

\* main.py 1005 and 50: websocket_endpoint calls manager.connect, which
\* awaits websocket.accept()
CM_Accept(w) ==
    /\ ws[w] = "new"
    /\ ws' = [ws EXCEPT ![w] = "accepting"]
    /\ UNCHANGED <<active_connections, bc>>
    /\ UNCHANGED <<em_vars, up_vars, lx_vars, log_vars, ml_vars, ep_vars>>

\* main.py 50-51: accept() returns and the socket is appended, or accept()
\* raises and the socket never joins the list
CM_Connect(w) ==
    /\ ws[w] = "accepting"
    /\ \/ /\ active_connections' = Append(active_connections, w)
          /\ ws' = [ws EXCEPT ![w] = "open"]
          /\ bc' = NoteChange({})
       \/ /\ ws' = [ws EXCEPT ![w] = "refused"]
          /\ UNCHANGED <<active_connections, bc>>
    /\ UNCHANGED <<em_vars, up_vars, lx_vars, log_vars, ml_vars, ep_vars>>

\* main.py 1024-1025 and 54-55: the endpoint's handler of WebSocketDisconnect
\* calls manager.disconnect; list.remove raises ValueError for a socket that
\* is not in the list.  The endpoint is not inside a broadcast of its own:
\* the bare except of broadcast keeps what a send raises.
CM_Disconnect(w) ==
    /\ ws[w] = "open"
    /\ ~Sending(w)
    /\ IF InList(w)
       THEN /\ active_connections' = Remove(active_connections, w)
            /\ ws' = [ws EXCEPT ![w] = "closed"]
            /\ bc' = NoteChange({w})
       ELSE /\ ws' = [ws EXCEPT ![w] = "remove_raised"]
            /\ UNCHANGED <<active_connections, bc>>
    /\ UNCHANGED <<em_vars, up_vars, lx_vars, log_vars, ml_vars, ep_vars>>

\* the for loop of main.py 58, at index idx of the list as it is now: the
\* next send is awaited, or the list is exhausted and broadcast returns
NextSend(call, idx) ==
    IF idx < Len(active_connections)
    THEN [call EXCEPT !.pc = "sending", !.idx = idx + 1,
                      !.to = active_connections[idx + 1]]
    ELSE [call EXCEPT !.pc = "returned", !.idx = idx, !.to = "none"]

\* main.py 57-60: a caller (the endpoint of an open socket at 1017, or the
\* route at 265) calls broadcast, which runs up to its first await
CM_Broadcast(b) ==
    /\ bc[b].pc = "idle"
    /\ b \in WebSockets => ws[b] = "open"
    /\ Cardinality({c \in Broadcasters : bc[c].pc # "idle"}) < MaxBroadcasts
    /\ bc' = [bc EXCEPT ![b] =
                 NextSend([NoBroadcast EXCEPT
                             !.whole = {w \in WebSockets : InList(w)}], 0)]
    /\ UNCHANGED <<active_connections, ws>>
    /\ UNCHANGED <<em_vars, up_vars, lx_vars, log_vars, ml_vars, ep_vars>>

\* without the try/except of main.py 59-62: a send that raises ends the call
CM_SendDone_NoExcept(b) ==
    /\ Sending(b)
    /\ \E ok \in BOOLEAN :
         LET call == [bc[b] EXCEPT !.sent = Append(@, [to |-> bc[b].to, ok |-> ok])]
         IN  bc' = [bc EXCEPT ![b] =
                      IF ok THEN NextSend(call, call.idx)
                      ELSE [call EXCEPT !.pc = "raised", !.to = "none"]]
    /\ UNCHANGED <<active_connections, ws>>
    /\ UNCHANGED <<em_vars, up_vars, lx_vars, log_vars, ml_vars, ep_vars>>

\* main.py 59-62 and 58: the awaited send_text returns or raises (the bare
\* except passes), and the loop goes on to its next await or to its end
CM_SendDone(b) ==
    /\ Sending(b)
    /\ \E ok \in BOOLEAN :
         LET call == [bc[b] EXCEPT !.sent = Append(@, [to |-> bc[b].to, ok |-> ok])]
         IN  bc' = [bc EXCEPT ![b] = NextSend(call, call.idx)]
    /\ UNCHANGED <<active_connections, ws>>
    /\ UNCHANGED <<em_vars, up_vars, lx_vars, log_vars, ml_vars, ep_vars>>

InitManager == EmotionIdle /\ UploadIdle /\ OtherIdle

NextManager ==
    \/ \E w \in WebSockets : CM_Accept(w) \/ CM_Connect(w) \/ CM_Disconnect(w)
    \/ \E b \in Broadcasters : CM_Broadcast(b) \/ CM_SendDone(b)

SpecManager == InitManager /\ [][NextManager]_vars

(***************************************************************************)
(* websocket_endpoint, main.py 1002-1025, as it uses the manager.  Inside  *)
(* its try the endpoint awaits asyncio.sleep, get_current_heart_rate,      *)
(* get_current_emotion and manager.broadcast, and never receives from the  *)
(* socket.  None of them raises WebSocketDisconnect: what a send to a      *)
(* closed socket raises stays in broadcast (61-62).  So no step of the     *)
(* endpoint enters the handler of 1024-1025, and the endpoint has no       *)
(* action that calls manager.disconnect.                                   *)
(***************************************************************************)
\* the clients that connect to /ws/realtime
EndpointSockets == {"ws1", "ws2"}

\* the client of an open socket closes its connection, or it is lost
WS_Close(w) ==
    /\ ws[w] = "open"
    /\ w \notin dropped
    /\ dropped' = dropped \cup {w}
    /\ UNCHANGED site
    /\ UNCHANGED <<em_vars, up_vars, lx_vars, cm_vars, log_vars, ml_vars>>

\* main.py 1007-1022 and 265: broadcast has returned to its caller.  The
\* endpoint goes from get_current_emotion (its broadcast at 265) to its own
\* broadcast at 1017, and from there round the while True to the next
\* cycle; the route returns and serves its next request.
CM_Return(b) ==
    /\ bc[b].pc = "returned"
    /\ bc' = [bc EXCEPT ![b] = NoBroadcast]
    /\ site' = [site EXCEPT ![b] = IF b \in WebSockets /\ @ = 265 THEN 1017 ELSE 265]
    /\ UNCHANGED dropped
    /\ UNCHANGED <<active_connections, ws>>
    /\ UNCHANGED <<em_vars, up_vars, lx_vars, log_vars, ml_vars>>

InitEndpoint == EmotionIdle /\ UploadIdle /\ OtherIdle

NextEndpoint ==
    \/ \E w \in EndpointSockets : CM_Accept(w) \/ CM_Connect(w) \/ WS_Close(w)
    \/ \E b \in EndpointSockets \cup {"http"} :
          CM_Broadcast(b) \/ CM_SendDone(b) \/ CM_Return(b)

\* The event loop runs every coroutine that can go on: an accept that was
\* awaited ends, a broadcast goes from send to send and returns, and the
\* endpoint of an open socket comes round to its next broadcast.  Nothing
\* is assumed of the clients.
EndpointFairness ==
    /\ \A w \in EndpointSockets : WF_vars(CM_Connect(w))
    /\ \A b \in EndpointSockets \cup {"http"} :
          WF_vars(CM_SendDone(b)) /\ WF_vars(CM_Return(b))
    /\ \A w \in EndpointSockets : SF_vars(CM_Broadcast(w))

SpecEndpoint == InitEndpoint /\ [][NextEndpoint]_vars /\ EndpointFairness

(***************************************************************************)
(* save_to_json, transcript.py 81-105.  The text of audio_log.json is kept *)
(* as a sequence of cells: "[", "]", "," and one cell for each record.     *)
(***************************************************************************)
MaxCalls == 3

\* the transcripts of the cycles (transcript.py 131)
LogTranscripts == {"a", "b", "c"}

NoEntry == [timestamp |-> 0, transcript |-> ""]

Cell(kind, entry) == [cell |-> kind, entry |-> entry]

\* json.dump(data, f, indent=4) of a list of records
Dump(data) ==
    <<Cell("[", NoEntry)>>
    \o [i \in 1..(2 * Len(data) - 1) |->
           IF i % 2 = 1 THEN Cell("record", data[(i + 1) \div 2])
           ELSE Cell(",", NoEntry)]
    \o <<Cell("]", NoEntry)>>

\* whether json.load(f) accepts the text: a list of records and nothing else
WellFormed(text) ==
    /\ Len(text) >= 2
    /\ text[1].cell = "["
    /\ text[Len(text)].cell = "]"
    /\ Len(text) > 2 => Len(text) % 2 = 1
    /\ \A i \in 2..(Len(text) - 1) :
           text[i].cell = IF i % 2 = 0 THEN "record" ELSE ","

\* json.load(f) of a well-formed text
Load(text) == [i \in 1..((Len(text) - 1) \div 2) |-> text[2 * i].entry]

\* writing new from position 0 of a file opened with 'r+' (transcript.py
\* 99-103: seek(0) and no truncate): what lies beyond the new text stays
Overwrite(old, new) == new \o SubSeq(old, Len(new) + 1, Len(old))

\* the first k cells of a text: what a write that fails has written
Prefix(text, k) == SubSeq(text, 1, k)

\* transcript.py 81-105: one call of save_to_json at the end of a cycle.
\* log_entry carries datetime.utcnow(); the file is created with [log_entry]
\* or read, extended and written back.  json.load raises on a text that is
\* not well formed, and a write can fail after any number of cells.
save_to_json ==
    /\ utc_now < MaxCalls
    /\ utc_now' = utc_now + 1
    /\ \E t \in LogTranscripts :
         LET log_entry == [timestamp |-> utc_now', transcript |-> t]
             data == IF log_file.exists THEN Append(Load(log_file.text), log_entry)
                     ELSE <<log_entry>>
             new == Dump(data)
         IN  IF log_file.exists /\ ~WellFormed(log_file.text)
             THEN /\ last_call' = "raised"
                  /\ UNCHANGED <<log_file, saved>>
             ELSE \/ /\ log_file' = [exists |-> TRUE,
                                      text |-> Overwrite(log_file.text, new)]
                     /\ saved' = Append(saved, log_entry)
                     /\ last_call' = "completed"
                  \/ /\ \E k \in 0..(Len(new) - 1) :
                          log_file' = [exists |-> TRUE,
                                       text |-> Overwrite(log_file.text,
                                                          Prefix(new, k))]
                     /\ last_call' = "raised"
                     /\ UNCHANGED saved

\* a call that always writes [log_entry], as if the file were new
SaveToJson_NoAppend ==
    /\ utc_now < MaxCalls
    /\ utc_now' = utc_now + 1
    /\ \E t \in LogTranscripts :
         LET log_entry == [timestamp |-> utc_now', transcript |-> t]
         IN  /\ log_file' = [exists |-> TRUE,
                              text |-> Overwrite(log_file.text, Dump(<<log_entry>>))]
             /\ saved' = Append(saved, log_entry)
             /\ last_call' = "completed"
    /\ UNCHANGED <<em_vars, up_vars, lx_vars, cm_vars, ml_vars, ep_vars>>

\* a call of save_to_json on its own
SaveToJson ==
    /\ save_to_json
    /\ UNCHANGED <<em_vars, up_vars, lx_vars, cm_vars, ml_vars, ep_vars>>

InitLog == EmotionIdle /\ UploadIdle /\ OtherIdle

NextLog == SaveToJson

SpecLog == InitLog /\ [][NextLog]_vars

(***************************************************************************)
(* The recording loop, transcript.py 30-34 and 108-140.  Every captured    *)
(* sample has a serial number, counted from 0 in capture order; an array   *)
(* is a sequence of runs of consecutive serial numbers.                    *)
(***************************************************************************)
MaxBlocks == 3

SAMPLE_RATE == 16000
CHUNK_SECONDS == 10
CHUNK_SIZE == SAMPLE_RATE * CHUNK_SECONDS

\* the frames of one callback: small blocks, a block one short of a chunk, a
\* whole chunk, and a block of more than two chunks
BlockSizes == {1, 1024, 159999, 160000, 320001}

Run(from, n) == [from |-> from, len |-> n]

RECURSIVE LenUpTo(_, _)
\* the number of samples in the first i runs of an array
LenUpTo(a, i) == IF i = 0 THEN 0 ELSE LenUpTo(a, i - 1) + a[i].len

\* len(a)
ArrayLen(a) == LenUpTo(a, Len(a))

RECURSIVE SumSizes(_, _)
\* the number of samples in the first i captured blocks
SumSizes(sizes, i) == IF i = 0 THEN 0 ELSE SumSizes(sizes, i - 1) + sizes[i]

RECURSIVE Concatenate(_)
\* np.concatenate(list) of a list of arrays
Concatenate(list) ==
    IF list = <<>> THEN <<>> ELSE Head(list) \o Concatenate(Tail(list))

\* a[lo:hi]
Slice(a, lo, hi) ==
    LET piece(i) ==
            LET start == LenUpTo(a, i - 1)
                b == IF lo > start THEN lo ELSE start
                e == IF hi < start + a[i].len THEN hi ELSE start + a[i].len
            IN  Run(a[i].from + (b - start), e - b)
    IN  SelectSeq([i \in 1..Len(a) |-> piece(i)], LAMBDA r : r.len > 0)

\* transcript.py 33-34: the stream delivers a block, the callback puts a copy
\* of it into the queue
AudioCallback ==
    /\ Len(captured) < MaxBlocks
    /\ \E frames \in BlockSizes :
         /\ audio_queue' = Append(audio_queue,
                                   <<Run(SumSizes(captured, Len(captured)), frames)>>)
         /\ captured' = Append(captured, frames)
    /\ UNCHANGED <<audio_buffer, combined, processed, loop_pc>>
    /\ UNCHANGED <<em_vars, up_vars, lx_vars, cm_vars, log_vars, ep_vars>>

\* as if transcript.py 122 reset the buffer: audio_buffer = []
ML_Get_DropLeftover ==
    /\ loop_pc = "get"
    /\ audio_queue # <<>>
    /\ audio_queue' = Tail(audio_queue)
    /\ LET buffered == Append(audio_buffer, Head(audio_queue))
           total_samples == ArrayLen(Concatenate(buffered))
       IN  IF total_samples >= CHUNK_SIZE
           THEN /\ combined' = Slice(Concatenate(buffered), 0, CHUNK_SIZE)
                /\ audio_buffer' = <<>>
                /\ processed' = Append(processed, combined')
                /\ loop_pc' = "process"
           ELSE /\ audio_buffer' = buffered
                /\ UNCHANGED <<combined, processed, loop_pc>>
    /\ UNCHANGED captured
    /\ UNCHANGED <<em_vars, up_vars, lx_vars, cm_vars, log_vars, ep_vars>>

\* transcript.py 115-122: take a block from the queue (blocking while it is
\* empty), append it, and once CHUNK_SIZE samples are buffered cut the chunk
\* off the front and keep the rest as the only element of the buffer
ML_Get ==
    /\ loop_pc = "get"
    /\ audio_queue # <<>>
    /\ audio_queue' = Tail(audio_queue)
    /\ LET buffered == Append(audio_buffer, Head(audio_queue))
           total_samples == ArrayLen(Concatenate(buffered))
       IN  IF total_samples >= CHUNK_SIZE
           THEN /\ combined' = Slice(Concatenate(buffered), 0, CHUNK_SIZE)
                /\ audio_buffer' = <<Slice(Concatenate(buffered), CHUNK_SIZE,
                                            total_samples)>>
                /\ processed' = Append(processed, combined')
                /\ loop_pc' = "process"
           ELSE /\ audio_buffer' = buffered
                /\ UNCHANGED <<combined, processed, loop_pc>>
    /\ UNCHANGED captured
    /\ UNCHANGED <<em_vars, up_vars, lx_vars, cm_vars, log_vars, ep_vars>>

\* transcript.py 124-140: the chunk is written to temp.wav, measured,
\* transcribed and analysed, and the cycle is logged by save_to_json.  An
\* exception of a step or of save_to_json ends main_loop (only
\* KeyboardInterrupt is caught, 142).
ML_Process ==
    /\ loop_pc = "process"
    /\ \/ /\ loop_pc' = "raised"
          /\ UNCHANGED log_vars
       \/ /\ save_to_json
          /\ loop_pc' = IF last_call' = "completed" THEN "get" ELSE "raised"
    /\ UNCHANGED <<captured, audio_queue, audio_buffer, combined, processed>>
    /\ UNCHANGED <<em_vars, up_vars, lx_vars, cm_vars, ep_vars>>

InitLoop == EmotionIdle /\ UploadIdle /\ OtherIdle

NextLoop == AudioCallback \/ ML_Get \/ ML_Process

SpecLoop == InitLoop /\ [][NextLoop]_vars

(***************************************************************************)
(* Claims about analyze_emotion, checked under SpecEmotion.                *)
(***************************************************************************)
AllFourFactors(f) ==
    f.high_bpm /\ f.high_volume /\ f.repetition_alert /\ f.negative_sentiment

\* C1: the label is picked by a fixed priority order, first match wins: all
\* four factors true gives Anxious with confidence 0.9; otherwise
\* negative_sentiment gives Sad with 0.7; otherwise a compound strictly above
\* 0.3 gives Happy with 0.8 (exactly 0.3 does not); otherwise Neutral with 0.6.
C1_PriorityOrder ==
    analysis.status = "returned" =>
        LET f == analysis.factors
            out == <<analysis.emotion, analysis.confidence>>
        IN  /\ AllFourFactors(f) => out = <<"Anxious", 9>>
            /\ (~AllFourFactors(f) /\ f.negative_sentiment) => out = <<"Sad", 7>>
            /\ (~f.negative_sentiment /\ em_compound > 3000) => out = <<"Happy", 8>>
            /\ (~f.negative_sentiment /\ em_compound <= 3000) => out = <<"Neutral", 6>>

\* C1 witness: a call where all four factors hold, so that the Anxious and
\* the Sad branch both match, has returned.
C1_Witness ==
    /\ analysis.status = "returned"
    /\ AllFourFactors(analysis.factors)
    /\ analysis.emotion = "Anxious"

\* C2: the four factors are threshold tests on the inputs: high_bpm iff the
\* maximum of the heart-rate series is > 100, high_volume iff the mean of the
\* volume series is > 0.5, repetition_alert iff repetition_count >= 2,
\* negative_sentiment iff the compound is < -0.3; at max 100, mean 0.5,
\* count 1 and compound -0.3 the factor is false.
C2_FactorThresholds ==
    analysis.status = "returned" =>
        LET f == analysis.factors
            m == analysis.max_bpm
            n == Len(volume_df)
        IN  /\ \E i \in 1..Len(heart_rate_df) : heart_rate_df[i] = m
            /\ \A i \in 1..Len(heart_rate_df) : heart_rate_df[i] <= m
            /\ f.high_bpm <=> m > 100
            /\ analysis.avg_volume = <<SeriesSum(volume_df), n>>
            \* mean > 0.5 with samples in eighths: sum / (8 n) > 1/2
            /\ f.high_volume <=> (n > 0 /\ SeriesSum(volume_df) > 4 * n)
            /\ f.repetition_alert <=> analysis.repetition_count >= 2
            /\ f.negative_sentiment <=> em_compound < -3000

\* C2 witness: a returned call on the boundaries: maximum 100, mean exactly
\* 0.5, compound exactly -0.3, and a repetition count of exactly 2.
C2_Witness ==
    /\ analysis.status = "returned"
    /\ analysis.max_bpm = 100
    /\ volume_df = <<3, 5>>
    /\ em_compound = -3000
    /\ analysis.repetition_count = 2
    /\ analysis.factors = [NoFactors EXCEPT !.repetition_alert = TRUE]

EmotionLabels == {"Anxious", "Sad", "Happy", "Neutral"}

NormalizationEnded ==
    /\ "normalize" \in stages
    /\ pc \notin {"s_method2", "s_method3"}

AllStrategiesFailed == \A i \in 1..Len(strategies) : ~strategies[i].ok

StrategyOrder == <<"direct", "passthrough", "synthetic">>

C5_Original == (pc = "done" /\ temp_path) => fs = {}

\* C5 amended: on every exit path after the upload was saved, the cleanup
\* unlinks every temporary file the invocation created; a file remains only
\* if its os.unlink raised (the error is logged and swallowed).
C5_CleanupOnEveryExit ==
    (pc = "done" /\ temp_path) => (fs = unlink_failed)

\* C5 witness: an invocation that created both files and returned a record
\* has finished, and neither file exists.
C5_Witness ==
    /\ pc = "done"
    /\ endpoint = "simple"
    /\ response.kind = "record"
    /\ buffer # NoBuffer
    /\ fs = {}

\* C6: the transcription stage always hands a defined, non-empty transcript
\* to lexical analysis and never propagates an error: every invocation whose
\* audio was decoded reaches lexical analysis.
C6_TranscriptAlwaysReturned ==
    (pc = "done" /\ buffer # NoBuffer) =>
        ("lexical" \in stages /\ ~IsEmpty(transcript) /\ response.kind = "record")

IsSuccess(outcome) == outcome \in {"text", "envelope_text"}

\* C7: the recognizer attempts run in the order 1 (default locale), 2 (full
\* envelope), 3 (alternate locale), 4 (offline); the first one that returns
\* non-blank text is the last one invoked and its text is the transcript from
\* then on; attempt k is invoked only if every attempt before it failed or
\* returned blank text.
C7_FirstSuccessWins ==
    LET k == Len(attempts) IN
    /\ k <= 4
    /\ \A i \in 1..k :
        /\ attempts[i].n = i
        /\ attempts[i].kind =
             <<"google_en_US", "google_en_US_show_all", "google_en", "sphinx">>[i]
        /\ IsSuccess(attempts[i].outcome) =>
             /\ i = k
             /\ pc # "s_attempt"
             /\ transcript = [kind |-> "text", by |-> i]
    /\ \A i \in 1..(k - 1) : ~IsSuccess(attempts[i].outcome)

\* C7 witness: attempts 1 and 2 gave nothing, attempt 3 returned text, no
\* fourth attempt was made and the record was returned.
C7_Witness ==
    /\ pc = "done"
    /\ Len(attempts) = 3
    /\ IsSuccess(attempts[3].outcome)
    /\ transcript = [kind |-> "text", by |-> 3]
    /\ response.kind = "record"

NoStageInvoked ==
    /\ stages = {}
    /\ fs = {}
    /\ ~temp_path /\ ~converted_path
    /\ buffer = NoBuffer
    /\ strategies = <<>>
    /\ attempts = <<>>
    /\ features = NoFeatures

\* C8 as stated: a zero-byte upload is rejected with the EmptyInput 400 and
\* no pipeline stage is invoked for it.
C8_Original ==
    (endpoint # "none" /\ upload.size = 0) =>
        /\ NoStageInvoked
        /\ pc = "done" => response = ErrorResponse("EmptyInput")

\* C8 amended: a zero-byte upload is rejected with a 400 that reaches the
\* caller unchanged and no pipeline stage is invoked for it; the error is
\* EmptyInput, except in analyze_audio when the declared type is not accepted
\* either: the type check runs first there and the 400 is UnsupportedFormat.
C8_EmptyRejected ==
    (endpoint # "none" /\ upload.size = 0) =>
        /\ NoStageInvoked
        /\ pc = "done" =>
             /\ response.kind = "error"
             /\ response.status = 400
             /\ response.detail =
                  IF endpoint = "audio" /\ ~upload.accepted
                  THEN "UnsupportedFormat" ELSE "EmptyInput"

\* C8 witness: analyze_audio_simple has rejected a zero-byte upload.
C8_Witness ==
    /\ endpoint = "simple"
    /\ upload.size = 0
    /\ pc = "done"
    /\ response = ErrorResponse("EmptyInput")

\* C9 as stated: on both entry points an upload whose declared type is not
\* accepted is rejected with UnsupportedFormat before any decode attempt.
C9_Original ==
    (endpoint # "none" /\ ~upload.accepted) =>
        /\ strategies = <<>>
        /\ pc = "done" => response = ErrorResponse("UnsupportedFormat")

\* C9 amended: analyze_audio rejects an upload whose declared type is not
\* accepted with UnsupportedFormat before it is read, saved or decoded;
\* analyze_audio_simple has no such check: it never raises UnsupportedFormat
\* and runs its conversion on every non-empty upload it could save.
C9_TypeCheckInAnalyzeAudioOnly ==
    /\ (endpoint = "audio" /\ ~upload.accepted) =>
           /\ pc = "done"
           /\ response = ErrorResponse("UnsupportedFormat")
           /\ NoStageInvoked
    /\ endpoint = "simple" =>
           /\ exc # "UnsupportedFormat"
           /\ response.detail # "UnsupportedFormat"
           /\ (pc = "done" /\ upload.size > 0 /\ temp_path) => strategies # <<>>

\* C9 witness: analyze_audio has rejected a non-empty upload of a type that
\* is not accepted.
C9_Witness ==
    /\ endpoint = "audio"
    /\ ~upload.accepted
    /\ upload.size > 0
    /\ pc = "done"
    /\ response = ErrorResponse("UnsupportedFormat")

\* C10: every invocation ends with either a complete record (all six fields)
\* or one typed error (400 or 500); a client error raised inside the handler
\* reaches the caller as that 400; no partial record is ever built.
C10_RecordOrTypedError ==
    /\ pc = "done" =>
        \/ response = [kind |-> "record", status |-> 200, detail |-> "",
                       fields |-> {"transcript", "sentiment_score",
                                   "repetition_count", "average_pitch",
                                   "average_volume", "word_frequency"}]
        \/ /\ response.kind = "error"
           /\ response.status \in {400, 500}
           /\ response.fields = {}
    /\ (pc = "done" /\ exc \in {"EmptyInput", "UnsupportedFormat", "ConversionFailed"}) =>
           (response.status = 400 /\ response.detail = exc)
    /\ (pc = "done" /\ exc = "none") => response.kind = "record"
    /\ response.kind = "record" => Cardinality(response.fields) = 6

\* C10 witness: all three conversions raised inside the try of
\* analyze_audio_simple, and the caller has received the 400.
C10_Witness ==
    /\ pc = "done"
    /\ endpoint = "simple"
    /\ exc = "ConversionFailed"
    /\ response.status = 400

(***************************************************************************)
(* Claims about the tokenizations, checked under SpecLexical.              *)
(***************************************************************************)
RECURSIVE SumCounts(_)
SumCounts(f) ==
    IF DOMAIN f = {} THEN 0
    ELSE LET w == CHOOSE w \in DOMAIN f : TRUE
         IN  f[w] + SumCounts([v \in DOMAIN f \ {w} |-> f[v]])

\* C11 as stated: for every transcript the counts of the returned
\* word_frequency sum to the number of tokens.
C11_Original ==
    lexical.status = "returned" =>
        SumCounts(lexical.word_frequency) = Len(lexical.words)

\* C11 amended: the returned word_frequency holds the counts of the 10 most
\* frequent tokens (of all of them when there are at most 10 distinct ones);
\* its counts sum to the token count when the transcript has at most 10
\* distinct tokens and to less when it has more.
C11_WordFrequencyTopTen ==
    lexical.status = "returned" =>
        LET f == lexical.word_frequency
            distinct == DistinctWords(lexical.words)
        IN  /\ DOMAIN f \subseteq distinct
            /\ \A w \in DOMAIN f : f[w] = WordCount(lexical.words, w)
            /\ \A w \in DOMAIN f, v \in distinct \ DOMAIN f :
                   WordCount(lexical.words, v) <= f[w]
            /\ IF Cardinality(distinct) <= 10
               THEN /\ DOMAIN f = distinct
                    /\ SumCounts(f) = Len(lexical.words)
               ELSE /\ Cardinality(DOMAIN f) = 10
                    /\ SumCounts(f) < Len(lexical.words)

\* C11 witness: the lexical analysis has run on a transcript of more than 10
\* distinct tokens.
C11_Witness ==
    /\ lexical.status = "returned"
    /\ Cardinality(DistinctWords(lexical.words)) > 10
    /\ Cardinality(DOMAIN lexical.word_frequency) = 10

\* C12 as stated: for every transcript, one of zero tokens included,
\* repetition_count is at most the token count minus 1.
C12_Original ==
    /\ analysis.status = "returned" =>
           analysis.repetition_count <= Len(EmotionWords(em_transcript)) - 1
    /\ lexical.status = "returned" =>
           lexical.repetition_count <= Len(lexical.words) - 1

\* C12 amended: repetition_count is at most the token count minus 1 for a
\* transcript of at least one token, and 0 for a transcript of no token.
C12_RepetitionBound ==
    /\ analysis.status = "returned" =>
           LET n == Len(EmotionWords(em_transcript))
           IN  /\ analysis.repetition_count >= 0
               /\ analysis.repetition_count <= IF n = 0 THEN 0 ELSE n - 1
    /\ lexical.status = "returned" =>
           LET n == Len(lexical.words)
           IN  /\ lexical.repetition_count >= 0
               /\ lexical.repetition_count <= IF n = 0 THEN 0 ELSE n - 1

\* C12 witness: both computations returned for a transcript of no token.
C12_Witness ==
    /\ analysis.status = "returned"
    /\ lexical.status = "returned"
    /\ em_transcript # <<>>
    /\ Len(EmotionWords(em_transcript)) = 0
    /\ Len(lexical.words) = 0

\* punctuation: neither a word character nor whitespace
IsPunctuation(c) == ~IsWordChar(c) /\ ~IsSpace(c)

\* the tokens after lower-casing and stripping all punctuation
StrippedWords(text) == Split(SelectSeq(Lower(text), LAMBDA c : ~IsPunctuation(c)))

\* C13: at every place it is computed, repetition_count is the number of
\* adjacent equal tokens of the transcript lower-cased and stripped of all
\* punctuation, and the places give the same count for the same transcript.
C13_RepetitionEverywhere ==
    /\ analysis.status = "returned" =>
           analysis.repetition_count = RepetitionCount(StrippedWords(em_transcript))
    /\ lexical.status = "returned" =>
           lexical.repetition_count = RepetitionCount(StrippedWords(em_transcript))
    /\ (analysis.status = "returned" /\ lexical.status = "returned") =>
           analysis.repetition_count = lexical.repetition_count

ScenarioInputs ==
    /\ analysis.status = "returned"
    /\ em_transcript = ScenarioTranscript
    /\ SeriesMax(heart_rate_df) = 105
    /\ SeriesMean(volume_df)[1] * 10 = 6 * 8 * SeriesMean(volume_df)[2]
    /\ em_compound < NegativeSentimentThreshold

\* C14 as stated: for the scenario transcript with maximum 105, mean 0.6 and
\* a compound below -0.3, repetition_count is 2, repetition_alert holds and
\* the label is Anxious.
C14_Original ==
    ScenarioInputs =>
        /\ analysis.repetition_count = 2
        /\ analysis.factors.repetition_alert
        /\ AllFourFactors(analysis.factors)
        /\ analysis.emotion = "Anxious"

\* C14 amended: for these inputs repetition_count is 1 (only Please/Please
\* are adjacent and equal), repetition_alert is false while the other three
\* factors hold, and the label is Sad with confidence 0.7.
C14_ScenarioIsSad ==
    ScenarioInputs =>
        /\ analysis.repetition_count = 1
        /\ ~analysis.factors.repetition_alert
        /\ analysis.factors.high_bpm
        /\ analysis.factors.high_volume
        /\ analysis.factors.negative_sentiment
        /\ analysis.emotion = "Sad"
        /\ analysis.confidence = ConfidenceSad

\* C14 witness: analyze_emotion has returned for the scenario.
C14_Witness == ScenarioInputs /\ analysis.emotion # ""

(***************************************************************************)
(* Claims about the buffer and the features of the upload handlers,        *)
(* checked under Spec.                                                     *)
(***************************************************************************)
Canonical(b) == b.channels = 1 /\ b.rate = TargetRate

\* C15 as stated: the buffer analyze_audio_simple hands to the recognizer is
\* mono at 16 kHz, whichever strategy produced it.
C15_Original ==
    (endpoint = "simple" /\ buffer # NoBuffer) => Canonical(buffer)

\* C15 amended: a buffer produced by direct decode or by the synthetic
\* fallback is mono at 16 kHz; a passed-through buffer is the upload copied
\* as it is, with the rate and the channel count of the upload.
C15_CanonicalUnlessPassedThrough ==
    (endpoint = "simple" /\ buffer # NoBuffer) =>
        /\ buffer.by \in {"direct", "passthrough", "synthetic"}
        /\ buffer.by # "passthrough" => Canonical(buffer)
        /\ buffer.by = "passthrough" =>
               (buffer.rate \in NativeRates /\ buffer.channels \in NativeChannels)

\* C15 witness: a stereo 44.1 kHz upload was passed through and the
\* recognizer attempts have started on it.
C15_Witness ==
    /\ endpoint = "simple"
    /\ buffer.by = "passthrough"
    /\ buffer.channels = 2
    /\ buffer.rate = 44100
    /\ Len(attempts) >= 1

\* C18: feature extraction never fails outward: once the normalization has
\* handed on a buffer, the invocation ends with a record; when the buffer is
\* empty or a step raises, the record carries the defaults (average_pitch 0.0
\* in analyze_audio, 150.0 in analyze_audio_simple, average_volume 0.5); and
\* average_volume lies in [0, 1] in every case.
C18_FeaturesNeverFailOutward ==
    (pc = "done" /\ buffer # NoBuffer) =>
        /\ response.kind = "record"
        /\ features.how \in {"computed", "default"}
        /\ features.average_volume >= 0 /\ features.average_volume <= 100
        /\ buffer.frames = 0 => features.how = "default"
        /\ features.how = "default" =>
               /\ features.average_volume = 50
               /\ features.average_pitch = IF endpoint = "audio" THEN 0 ELSE 150

\* C20: in analyze_audio_simple the strategies are tried in the order direct
\* decode, pass-through, synthetic fallback, each only after the one before
\* it raised; the synthetic buffer is 5 seconds (80000 samples) at 16 kHz
\* mono and is produced only after both others failed; and a buffer a
\* strategy has produced is never replaced.
C20_StrategiesInOrder ==
    [][ /\ (endpoint' = "simple" /\ strategies' # strategies) =>
              LET k == Len(strategies')
              IN  /\ strategies' = Append(strategies, strategies'[k])
                  /\ k <= 3
                  /\ strategies'[k].name = StrategyOrder[k]
                  /\ \A i \in 1..(k - 1) : ~strategies[i].ok
                  /\ buffer = NoBuffer
                  /\ IF strategies'[k].ok
                     THEN buffer'.by = strategies'[k].name
                     ELSE buffer' = NoBuffer
        /\ (endpoint' = "simple" /\ strategies' = strategies) => buffer' = buffer
        /\ (endpoint' = "simple" /\ buffer'.by = "synthetic") =>
              /\ buffer'.frames = 80000 /\ Canonical(buffer')
              /\ Len(strategies') = 3
              /\ ~strategies'[1].ok /\ ~strategies'[2].ok
      ]_vars

\* C20 witness: direct decode raised, the pass-through succeeded, and the
\* invocation has ended without a third strategy.
C20_Witness ==
    /\ endpoint = "simple"
    /\ pc = "done"
    /\ Len(strategies) = 2
    /\ ~strategies[1].ok /\ strategies[2].ok
    /\ buffer.by = "passthrough"

(***************************************************************************)
(* Claims about the ConnectionManager, checked under SpecManager.          *)
(***************************************************************************)
\* the sockets a broadcast call has sent to, in order
SentTo(call) == [i \in 1..Len(call.sent) |-> call.sent[i].to]

\* C16: broadcast isolates the failures of listeners: a send that raises ends
\* neither the loop nor the call (broadcast never raises to its caller), the
\* loop goes on exactly as after a send that succeeded, and a call during
\* which the list did not change has sent to every socket of the list, once
\* each and in order, whichever sends failed.
C16_BroadcastIsolatesFailures ==
    [][ \A b \in Broadcasters :
          /\ bc'[b].pc # "raised"
          /\ (Sending(b) /\ bc'[b] # bc[b] /\ bc'[b].sent # bc[b].sent) =>
                /\ \E ok \in BOOLEAN :
                      bc'[b].sent = Append(bc[b].sent, [to |-> bc[b].to, ok |-> ok])
                /\ IF bc[b].idx < Len(active_connections)
                   THEN /\ bc'[b].pc = "sending"
                        /\ bc'[b].to = active_connections[bc[b].idx + 1]
                   ELSE bc'[b].pc = "returned"
          /\ (bc[b].pc # "returned" /\ bc'[b].pc = "returned" /\ bc'[b].stable) =>
                SentTo(bc'[b]) = active_connections'
      ]_vars

\* C16 witness: a call has returned after a send that raised was followed by
\* a send that succeeded, the list unchanged meanwhile.
C16_Witness ==
    \E b \in Broadcasters :
        /\ bc[b].pc = "returned"
        /\ bc[b].stable
        /\ Len(bc[b].sent) >= 2
        /\ ~bc[b].sent[1].ok
        /\ bc[b].sent[2].ok

\* C17: connect and disconnect calls of other sockets may interleave with a
\* broadcast at its awaits: every socket that is in the list for the whole
\* duration of the call is sent the message exactly once, and none of
\* connect, disconnect and broadcast raises.
C17_SafeConcurrentUse ==
    /\ \A b \in Broadcasters :
          /\ bc[b].pc # "raised"
          /\ bc[b].pc = "returned" =>
                \A w \in bc[b].whole :
                    Cardinality({i \in 1..Len(bc[b].sent) : bc[b].sent[i].to = w}) = 1
    /\ \A w \in WebSockets : ws[w] # "remove_raised"

(***************************************************************************)
(* Claims about the persisted log, checked under SpecLog.                  *)
(***************************************************************************)
\* C19: the log is append-only: after n completed calls of save_to_json it
\* holds exactly the n records of these calls in call order, and a call that
\* completes adds one record at the end, stamped with the UTC clock, and
\* leaves the records before it as they were.
C19_AppendOnly ==
    /\ [](last_call = "completed" =>
            /\ log_file.exists
            /\ WellFormed(log_file.text)
            /\ Load(log_file.text) = saved)
    /\ [][ last_call' = "completed" =>
              /\ WellFormed(log_file'.text)
              /\ LET before == IF log_file.exists THEN Load(log_file.text) ELSE <<>>
                     after == Load(log_file'.text)
                 IN  /\ Len(after) = Len(before) + 1
                     /\ SubSeq(after, 1, Len(before)) = before
                     /\ after[Len(after)].timestamp = utc_now'
      ]_vars

\* C19 witness: three calls have completed and the log holds their three
\* records.
C19_Witness ==
    /\ last_call = "completed"
    /\ Len(saved) = 3
    /\ Len(Load(log_file.text)) = 3

(***************************************************************************)
(* Claims about the recognizer attempts and the diagnostics of             *)
(* analyze_audio_simple, checked under Spec.                               *)
(***************************************************************************)
Raised(outcome) == outcome \in {"no_speech", "service_error", "error"}

\* C21: the recognizer attempts are isolated: an attempt that ends in a
\* no-speech error, a service error or any other exception changes neither
\* the transcript nor the response and puts no exception in flight; after
\* such an attempt k < 4 the loop stands before attempt k + 1, and the loop
\* is left only after attempt 4 or after an attempt that returned non-blank
\* text, so the text of a failure is never the transcript.
C21_AttemptsIsolated ==
    /\ [][ (pc = "s_attempt" /\ attempts' # attempts) =>
              LET k == Len(attempts')
              IN  Raised(attempts'[k].outcome) =>
                    /\ transcript' = transcript
                    /\ exc' = exc
                    /\ response' = response
                    /\ k < RecognitionAttempts => pc' = "s_attempt"
                    /\ k = RecognitionAttempts => pc' = "s_diagnose"
         ]_vars
    /\ [](pc = "s_attempt" => Len(attempts) < RecognitionAttempts)
    /\ []((attempts # <<>> /\ pc # "s_attempt") =>
             /\ \/ Len(attempts) = RecognitionAttempts
                \/ IsSuccess(attempts[Len(attempts)].outcome)
             /\ transcript.kind # "recognition_failed")

\* C21 witness: attempts 1, 2 and 3 ended in a no-speech error, a service
\* error and another exception, attempt 4 returned text and the record with
\* that text was returned.
C21_Witness ==
    /\ pc = "done"
    /\ Len(attempts) = 4
    /\ attempts[1].outcome = "no_speech"
    /\ attempts[2].outcome = "service_error"
    /\ attempts[3].outcome = "error"
    /\ IsSuccess(attempts[4].outcome)
    /\ transcript = [kind |-> "text", by |-> 4]
    /\ response.kind = "record"

AttemptsExhausted ==
    /\ endpoint = "simple"
    /\ pc \in {"s_lexical", "s_features", "s_return", "s_finally", "done"}
    /\ Len(attempts) = RecognitionAttempts
    /\ ~IsSuccess(attempts[RecognitionAttempts].outcome)

\* C22: when all recognizer attempts ended without a transcript, the
\* transcript is one of the four placeholders, chosen by the first test that
\* matches: duration < 1.0 s 'too short', else peak < 0.01 'too quiet', else
\* RMS < 0.001 'low signal', else 'not detected'; a buffer of 0.5 s gives
\* 'too short', and the invocation ends with a complete record.
C22_PlaceholderByThreshold ==
    AttemptsExhausted =>
        /\ \E lv \in SignalLevels :
              transcript.kind =
                IF buffer.frames < buffer.rate THEN "too_short"
                ELSE IF lv[1] < 100 THEN "too_quiet"
                ELSE IF lv[2] < 10 THEN "low_signal"
                ELSE "not_detected"
        /\ 2 * buffer.frames = buffer.rate => transcript.kind = "too_short"
        /\ pc = "done" =>
              /\ response.kind = "record"
              /\ response.fields = RecordFields

(***************************************************************************)
(* Claims about the recording loop, checked under SpecLoop.                *)
(***************************************************************************)
\* whether an array holds the samples start, start + 1, ... in this order
Consecutive(a, start) ==
    \A i \in 1..Len(a) : a[i].from = start + LenUpTo(a, i - 1)

C24_DeadListenerRemoved ==
    \A w \in EndpointSockets : (InList(w) /\ w \in dropped) ~> ~InList(w)

====
